---------------------------- MODULE Spec2Model ----------------------------
(***************************************************************************)
(* Smart order router back-test: the Cont-Kukanov allocation search        *)
(* (allocator.py), the calibration replay and grid search (backtest.py)    *)
(* and the reference strategies (benchmark_strategies.py).                 *)
(*                                                                         *)
(* Units.  Prices, fees, rebates, penalty weights and cash are exact       *)
(* integers in mills (1/1000 of a dollar): ask 50.01 is 50010, the fee     *)
(* 0.003 is 3, lambda_over 0.2 is 200.  Python computes them in binary     *)
(* floating point; the model computes them exactly.                        *)
(*                                                                         *)
(* A Venue is [ask, ask_size, frac, big]:                                  *)
(*   ask, ask_size  the numbers quoted;                                    *)
(*   frac           the quoted size is the non-integer ask_size + 1/2      *)
(*                  (a JSON number such as 2000.5);                        *)
(*   big            the quoted price is an integer too large to convert    *)
(*                  to a float (ask + fee raises OverflowError).           *)
(***************************************************************************)
EXTENDS Integers, Sequences, FiniteSets, TLC

VARIABLES
    \* ---- a direct call of ContKukanovAllocator.allocate
    order_size,         \* allocate's order_size argument
    venues,             \* allocate's venues argument
    allocator,          \* the allocator object in use: its three weights
    ret,                \* what the latest allocate call returned
    prev_ret,           \* what the call before update_parameters returned
    apc,                \* position of the direct-call scenario
    \* ---- SORBacktester
    snapshots_received, \* self.snapshots_received
    running,            \* self.running
    cpc,                \* consumer thread: "new", "run" or "closed"
    pc,                 \* position of the main thread
    current_combination,\* parameter_search: trials started
    best_params,        \* parameter_search: best_params
    best_cost,          \* parameter_search: best_cost
    best_result,        \* parameter_search: best_result
    result,             \* what _test_strategy returned
    idx,                \* _test_strategy: snapshots the list iterator has yielded
    total_cash,         \* _test_strategy: total_cash
    shares_filled,      \* _test_strategy: shares_filled
    remaining_shares,   \* _test_strategy: remaining_shares
    \* ---- history of the current trial and of the search (read by no action)
    last,               \* the latest snapshot the replay processed and how it ended
    fills,              \* snapshots of the current trial that bought shares
    seen_min,           \* lowest total_cash of the results compared so far
    seen_first,         \* the first trial whose result has that total_cash
    \* ---- run_benchmarks
    results             \* the results dict

allocVars == <<order_size, venues, ret, prev_ret, apc>>

threadVars == <<snapshots_received, running, cpc>>

searchVars == <<current_combination, best_params, best_cost, best_result,
                seen_min, seen_first>>

trialVars == <<idx, total_cash, shares_filled, remaining_shares, last, fills>>

vars == <<order_size, venues, allocator, ret, prev_ret, apc,
          snapshots_received, running, cpc, pc, current_combination,
          best_params, best_cost, best_result, result, idx, total_cash,
          shares_filled, remaining_shares, last, fills, seen_min, seen_first,
          results>>

-----------------------------------------------------------------------------
(* Bounds of the model *)

MaxVenues == 3

MaxFeed == 2

MaxSnapshots == 3

\* longest snapshot list a whole parameter search is run on
MaxSearch == 2

(* Program constants *)

step == 100

fee == 3

rebate == 2

Inf == -1

target_shares == 5000

-----------------------------------------------------------------------------
(* Helpers *)

None == [none |-> TRUE]

Min2(a, b) == IF b < a THEN b ELSE a

Max2(a, b) == IF b > a THEN b ELSE a

RECURSIVE SumSeq(_)
SumSeq(s) == IF s = <<>> THEN 0 ELSE Head(s) + SumSeq(Tail(s))

\* a < b on floats, Inf being float('inf')
Lt(a, b) == a # Inf /\ (b = Inf \/ a < b)

Venue(ask, ask_size) == [ask |-> ask, ask_size |-> ask_size, frac |-> FALSE, big |-> FALSE]

Weights(lo, lu, tq) == [lambda_over |-> lo, lambda_under |-> lu, theta_queue |-> tq]

-----------------------------------------------------------------------------
(* allocator.py: ContKukanovAllocator *)

\* min(order_size - used, venue.ask_size): [v, frac], the value being v + 1/2 when frac
MaxV(order, used, venue) ==
    IF venue.frac
    THEN IF order - used <= venue.ask_size
         THEN [v |-> order - used, frac |-> FALSE]
         ELSE [v |-> venue.ask_size, frac |-> TRUE]
    ELSE [v |-> Min2(order - used, venue.ask_size), frac |-> FALSE]

\* mutant: the cap itself is tried as a last quantity when it is no multiple of step
RangeWithCap(max_v) ==
    IF max_v < 0 THEN <<>>
    ELSE LET base == [k \in 1..((max_v \div step) + 1) |-> (k - 1) * step]
         IN  IF max_v % step = 0 THEN base ELSE Append(base, max_v)

\* mutant: range(0, max_v, step), the cap excluded
RangeExclusive(max_v) ==
    IF max_v <= 0 THEN <<>>
    ELSE [k \in 1..(((max_v - 1) \div step) + 1) |-> (k - 1) * step]

\* list(range(0, max_v + 1, step))
Range(max_v) ==
    IF max_v < 0 THEN <<>>
    ELSE [k \in 1..((max_v \div step) + 1) |-> (k - 1) * step]

\* the inner loops of one v_idx over splits[lo..hi]: every alloc extended by every
\* q, in order (the list is halved rather than walked, the order is the loop's)
RECURSIVE Extend(_, _, _, _, _)
Extend(splits, lo, hi, order, venue) ==
    IF lo > hi THEN <<>>
    ELSE IF lo = hi
    THEN LET alloc == splits[lo]
             qs    == Range(MaxV(order, SumSeq(alloc), venue).v)
         IN  [k \in 1..Len(qs) |-> Append(alloc, qs[k])]
    ELSE LET mid == (lo + hi) \div 2
         IN  Extend(splits, lo, mid, order, venue)
             \o Extend(splits, mid + 1, hi, order, venue)

\* range() raises TypeError on a float bound
RangeRaises(splits, order, venue) ==
    \E i \in 1..Len(splits) : MaxV(order, SumSeq(splits[i]), venue).frac

\* lines 25-36: [raised, splits] after the venues from v_idx on
RECURSIVE Enumerate(_, _, _, _)
Enumerate(splits, v_idx, order, vs) ==
    IF v_idx > Len(vs) THEN [raised |-> FALSE, splits |-> splits]
    ELSE IF RangeRaises(splits, order, vs[v_idx])
         THEN [raised |-> TRUE, splits |-> <<>>]
         ELSE Enumerate(Extend(splits, 1, Len(splits), order, vs[v_idx]),
                        v_idx + 1, order, vs)

\* exe of venue i
Exe(split, vs, i) == Min2(split[i], vs[i].ask_size)

\* maker_rebate of venue i
MakerRebate(split, vs, i) == Max2(split[i] - Exe(split, vs, i), 0) * rebate

RECURSIVE Executed(_, _, _)
Executed(split, vs, i) ==
    IF i > Len(vs) THEN 0 ELSE Exe(split, vs, i) + Executed(split, vs, i + 1)

RECURSIVE CashSpent(_, _, _)
CashSpent(split, vs, i) ==
    IF i > Len(vs) THEN 0
    ELSE Exe(split, vs, i) * (vs[i].ask + fee) - MakerRebate(split, vs, i)
         + CashSpent(split, vs, i + 1)

\* mutant: the shortfall is taken against the last venue's exe, not the total executed
UnderfillLast(split, vs, order) ==
    IF vs = <<>> THEN order ELSE Max2(order - Exe(split, vs, Len(vs)), 0)

Underfill(split, vs, order) == Max2(order - Executed(split, vs, 1), 0)

\* mutant: the shares executed at the first venue are counted as overfill
OverfillFirst(split, vs, order) ==
    IF vs = <<>> THEN 0 ELSE Exe(split, vs, 1)

Overfill(split, vs, order) == Max2(Executed(split, vs, 1) - order, 0)

\* mutant: scoring never touches the price of a venue
CostRaisesNever(vs) == FALSE

\* venue.ask + venue.fee overflows for some venue of the loop
CostRaises(vs) == \E i \in 1..Len(vs) : vs[i].big

\* _compute_cost
ComputeCost(split, vs, order, w) ==
    CashSpent(split, vs, 1)
    + w.theta_queue * (Underfill(split, vs, order) + Overfill(split, vs, order))
    + w.lambda_under * Underfill(split, vs, order)
    + w.lambda_over * Overfill(split, vs, order)

\* mutant: no feasibility filter, every enumerated candidate is scored
ScoredAny(alloc, order) == TRUE

\* line 42: the candidate is scored
Scored(alloc, order) == SumSeq(alloc) = order

\* mutant: cost <= best_cost, the last minimum wins
ImprovesOrTies(cost, best) == best = Inf \/ (cost # Inf /\ cost <= best)

\* line 46: the candidate replaces the best so far
Improves(cost, best) == Lt(cost, best)

NoSplit == [raised |-> FALSE, split |-> <<>>, cost |-> Inf]

\* lines 38-48 over splits[lo..hi]: [raised, split, cost], the best of the
\* candidates lo..hi as the loop leaves it (the list is halved rather than
\* walked; a later candidate replaces an earlier one when it Improves on it)
RECURSIVE Search(_, _, _, _, _, _)
Search(splits, lo, hi, order, vs, w) ==
    IF lo > hi THEN NoSplit
    ELSE IF lo = hi
    THEN IF ~Scored(splits[lo], order) THEN NoSplit
         ELSE IF CostRaises(vs) THEN [raised |-> TRUE, split |-> <<>>, cost |-> Inf]
         ELSE LET cost == ComputeCost(splits[lo], vs, order, w)
              IN  IF Improves(cost, Inf)
                  THEN [raised |-> FALSE, split |-> splits[lo], cost |-> cost]
                  ELSE NoSplit
    ELSE LET mid   == (lo + hi) \div 2
             first == Search(splits, lo, mid, order, vs, w)
             rest  == Search(splits, mid + 1, hi, order, vs, w)
         IN  IF first.raised THEN first
             ELSE IF rest.raised THEN rest
             ELSE IF Improves(rest.cost, first.cost) THEN rest
             ELSE first

\* allocate: [raised, split, cost]
Allocate(order, vs, w) ==
    LET e == Enumerate(<< <<>> >>, 1, order, vs)
    IN  IF e.raised THEN [raised |-> TRUE, split |-> <<>>, cost |-> Inf]
        ELSE Search(e.splits, 1, Len(e.splits), order, vs, w)

\* update_parameters
UpdateParams(w) == w

-----------------------------------------------------------------------------
(* backtest.py: the weight grid of parameter_search *)

lambda_over_values == <<200, 400, 600, 800, 1000>>

lambda_under_values == <<300, 500, 700, 900, 1100>>

theta_queue_values == <<100, 300, 500, 700, 900>>

-----------------------------------------------------------------------------
(* Direct calls of allocate: inputs drawn from small sets *)

OrderSizes == {100, 150, 300}

AskSizes == {40, 100, 250}

Asks == {50000, 50010}

VenueInputs == {Venue(a, s) : a \in Asks, s \in AskSizes}

VenueLists == UNION {[1..n -> VenueInputs] : n \in 0..MaxVenues}

\* the weight triples update_parameters is called with: the last point of the grid
\* and a point in its middle
UpdateInputs ==
    {Weights(lambda_over_values[5], lambda_under_values[5], theta_queue_values[5]),
     Weights(lambda_over_values[3], lambda_under_values[1], theta_queue_values[2])}

\* the backtester as constructed (__init__), no thread started
BacktesterNew ==
    /\ running = FALSE
    /\ cpc = "new"
    /\ current_combination = 0
    /\ best_params = None
    /\ best_cost = Inf
    /\ best_result = None
    /\ result = None
    /\ idx = 0
    /\ total_cash = 0
    /\ shares_filled = 0
    /\ remaining_shares = 0
    /\ last = None
    /\ fills = 0
    /\ seen_min = Inf
    /\ seen_first = 0
    /\ results = None

backtestVars == <<snapshots_received, running, cpc, pc, current_combination,
                  best_params, best_cost, best_result, result, idx, total_cash,
                  shares_filled, remaining_shares, last, fills, seen_min, seen_first,
          results>>

InitAlloc ==
    /\ BacktesterNew
    /\ snapshots_received = <<>>
    /\ pc = "idle"
    /\ order_size \in OrderSizes
    /\ venues \in VenueLists
    /\ allocator = Weights(lambda_over_values[1], lambda_under_values[1],
                           theta_queue_values[1])
    /\ ret = None
    /\ prev_ret = None
    /\ apc = "call"

\* allocator.allocate(order_size, venues)
AllocateCall ==
    /\ apc \in {"call", "recall"}
    /\ ret' = Allocate(order_size, venues, allocator)
    /\ prev_ret' = ret
    /\ apc' = IF apc = "call" THEN "update" ELSE "done"
    /\ UNCHANGED <<order_size, venues, allocator>>
    /\ UNCHANGED backtestVars

\* allocator.update_parameters(lambda_over, lambda_under, theta_queue)
UpdateParameters ==
    /\ apc = "update"
    /\ \E w \in UpdateInputs : allocator' = UpdateParams(w)
    /\ apc' = "recall"
    /\ UNCHANGED <<order_size, venues, ret, prev_ret>>
    /\ UNCHANGED backtestVars

NextAlloc == AllocateCall \/ UpdateParameters

SpecAlloc == InitAlloc /\ [][NextAlloc]_vars

-----------------------------------------------------------------------------
(* backtest.py: SORBacktester._test_strategy *)

\* a venue record of a snapshot as the feed delivers it
Quote(px, sz) == [ask_px_00 |-> px, ask_sz_00 |-> sz, frac |-> FALSE, big |-> FALSE]

\* venue_data['ask_px_00'] > 0 and venue_data['ask_sz_00'] > 0
Valid(r) ==
    /\ (r.big \/ r.ask_px_00 > 0)
    /\ (IF r.frac THEN r.ask_sz_00 >= 0 ELSE r.ask_sz_00 > 0)

\* lines 89-96: the Venue objects built from the valid records, in order
RECURSIVE ValidVenues(_)
ValidVenues(snapshot) ==
    IF snapshot = <<>> THEN <<>>
    ELSE LET r == Head(snapshot)
         IN  (IF Valid(r)
              THEN <<[ask |-> r.ask_px_00, ask_size |-> r.ask_sz_00,
                      frac |-> r.frac, big |-> r.big]>>
              ELSE <<>>) \o ValidVenues(Tail(snapshot))

\* line 108: min(allocation[i], venue.ask_size, remaining_shares); a size of
\* ask_size + 1/2 is the minimum only above allocation[i] > ask_size, where the
\* integer part stands for it
SharesToBuy(q, venue, remaining) == Min2(Min2(q, venue.ask_size), remaining)

\* mutant: remaining_shares is not decremented
BuyNoDecrement(st, shares_to_buy, venue) ==
    [total_cash       |-> st.total_cash + shares_to_buy * (venue.ask + fee),
     shares_filled    |-> st.shares_filled + shares_to_buy,
     remaining_shares |-> st.remaining_shares,
     raised           |-> FALSE,
     bought           |-> Append(st.bought, shares_to_buy)]

\* lines 110-113: the purchase at one venue
Buy(st, shares_to_buy, venue) ==
    [total_cash       |-> st.total_cash + shares_to_buy * (venue.ask + fee),
     shares_filled    |-> st.shares_filled + shares_to_buy,
     remaining_shares |-> st.remaining_shares - shares_to_buy,
     raised           |-> FALSE,
     bought           |-> Append(st.bought, shares_to_buy)]

\* lines 106-113 from venue i on; st is [total_cash, shares_filled,
\* remaining_shares, raised, bought], bought listing the quantity bought per venue.
\* An exception (venue.ask + venue.fee overflowing) leaves st as the venues
\* before it made it: nothing is rolled back.
RECURSIVE Execute(_, _, _, _)
Execute(st, allocation, vs, i) ==
    IF i > Len(vs) THEN st
    ELSE IF i <= Len(allocation) /\ allocation[i] > 0
              /\ SharesToBuy(allocation[i], vs[i], st.remaining_shares) > 0
    THEN IF vs[i].big THEN [st EXCEPT !.raised = TRUE]
         ELSE Execute(Buy(st, SharesToBuy(allocation[i], vs[i], st.remaining_shares),
                          vs[i]),
                      allocation, vs, i + 1)
    ELSE Execute([st EXCEPT !.bought = Append(@, 0)], allocation, vs, i + 1)

\* lines 89-116, the body of the loop for one snapshot: [total_cash,
\* shares_filled, remaining_shares, kind, venues, allocation, bought]; kind is
\* "no_venues" (line 99), "raised" (line 115-116) or "executed"
ProcessSnapshot(st, snapshot, w) ==
    LET vs == ValidVenues(snapshot)
        base == [total_cash |-> st.total_cash, shares_filled |-> st.shares_filled,
                 remaining_shares |-> st.remaining_shares, kind |-> "no_venues",
                 venues |-> vs, allocation |-> <<>>, bought |-> <<>>]
    IN  IF vs = <<>> THEN base
        ELSE LET a == Allocate(Min2(st.remaining_shares, target_shares), vs, w)
             IN  IF a.raised THEN [base EXCEPT !.kind = "raised"]
                 ELSE LET x == Execute([total_cash |-> st.total_cash,
                                        shares_filled |-> st.shares_filled,
                                        remaining_shares |-> st.remaining_shares,
                                        raised |-> FALSE, bought |-> <<>>],
                                       a.split, vs, 1)
                          after == [total_cash |-> x.total_cash,
                                    shares_filled |-> x.shares_filled,
                                    remaining_shares |-> x.remaining_shares,
                                    kind |-> "executed", venues |-> vs,
                                    allocation |-> a.split, bought |-> x.bought]
                      IN  IF x.raised THEN [after EXCEPT !.kind = "raised"]
                          ELSE after

\* lines 76-83: the empty check and the locals of a trial
TestStart ==
    /\ pc = "test"
    /\ IF snapshots_received = <<>>
       THEN /\ result' = None
            /\ pc' = "returned"
            /\ UNCHANGED trialVars
       ELSE /\ total_cash' = 0
            /\ shares_filled' = 0
            /\ remaining_shares' = target_shares
            /\ idx' = 0
            /\ last' = None
            /\ fills' = 0
            /\ pc' = "replay"
            /\ UNCHANGED result
    /\ UNCHANGED <<allocator, allocVars, results, threadVars, searchVars>>

\* lines 85-116: the list iterator yields the next snapshot and the body runs
TestStep ==
    /\ pc = "replay"
    /\ idx < Len(snapshots_received)
    /\ remaining_shares > 0
    /\ LET o == ProcessSnapshot([total_cash |-> total_cash,
                                 shares_filled |-> shares_filled,
                                 remaining_shares |-> remaining_shares],
                                snapshots_received[idx + 1], allocator)
       IN  /\ total_cash' = o.total_cash
           /\ shares_filled' = o.shares_filled
           /\ remaining_shares' = o.remaining_shares
           /\ last' = [kind |-> o.kind, venues |-> o.venues,
                       allocation |-> o.allocation, bought |-> o.bought]
           /\ fills' = IF o.shares_filled # shares_filled THEN fills + 1 ELSE fills
    /\ idx' = idx + 1
    /\ UNCHANGED <<pc, result, allocator, allocVars, results, threadVars, searchVars>>

\* lines 85-87 and 118-121: the loop ends (list exhausted, or break) and the
\* ExecutionResult is built; trial tells the result objects of a search apart
TestReturn ==
    /\ pc = "replay"
    /\ (idx >= Len(snapshots_received) \/ remaining_shares <= 0)
    /\ result' = [total_cash |-> total_cash, shares_filled |-> shares_filled,
                  trial |-> current_combination]
    /\ pc' = "returned"
    /\ UNCHANGED <<allocator, allocVars, results, threadVars, searchVars, trialVars>>

-----------------------------------------------------------------------------
(* backtest.py: SORBacktester.parameter_search *)

total_combinations ==
    Len(lambda_over_values) * Len(lambda_under_values) * Len(theta_queue_values)

\* the weight triple of the c-th iteration of the three nested loops
GridPoint(c) ==
    LET per_over == Len(lambda_under_values) * Len(theta_queue_values)
    IN  Weights(lambda_over_values[((c - 1) \div per_over) + 1],
                lambda_under_values[(((c - 1) \div Len(theta_queue_values))
                                      % Len(lambda_under_values)) + 1],
                theta_queue_values[((c - 1) % Len(theta_queue_values)) + 1])

\* mutant: <=, a later trial of equal cash replaces the best
BetterOrTies(r, best) == r # None /\ (best = Inf \/ r.total_cash <= best)

\* line 57: result and result.total_cash < best_cost
Better(r, best) == r # None /\ Lt(r.total_cash, best)

\* lines 49-55: the next grid point, its allocator, the call of _test_strategy
NextTrial ==
    /\ pc = "trial"
    /\ current_combination < total_combinations
    /\ current_combination' = current_combination + 1
    /\ allocator' = GridPoint(current_combination + 1)
    /\ pc' = "test"
    /\ UNCHANGED <<allocVars, results, threadVars, trialVars, result,
                   best_params, best_cost, best_result, seen_min, seen_first>>

\* lines 57-66: the trial's result against the best so far
SelectBest ==
    /\ pc = "returned"
    /\ IF Better(result, best_cost)
       THEN /\ best_cost' = result.total_cash
            /\ best_params' = GridPoint(current_combination)
            /\ best_result' = result
       ELSE UNCHANGED <<best_cost, best_params, best_result>>
    /\ IF result # None /\ (seen_min = Inf \/ result.total_cash < seen_min)
       THEN seen_min' = result.total_cash /\ seen_first' = current_combination
       ELSE UNCHANGED <<seen_min, seen_first>>
    /\ pc' = IF current_combination < total_combinations THEN "trial" ELSE "search_done"
    /\ UNCHANGED <<current_combination, allocator, allocVars, results, threadVars, trialVars,
                   result>>

-----------------------------------------------------------------------------
(* backtest.py: SORBacktester.run_backtest and consume_market_data *)

\* a feasible snapshot (its second record is filtered out), one whose only venue
\* quotes no multiple of step, one with a non-integer size
SnapFill == <<Quote(50010, 4900), Quote(0, 300), Quote(50000, 200)>>

SnapThin == <<Quote(49000, 4950)>>

SnapFrac == <<Quote(50000, 5000), [Quote(49990, 2000) EXCEPT !.frac = TRUE]>>

\* the snapshots the topic may deliver
FeedSnapshots == {SnapThin, SnapFill}

\* lines 213-217: the consumer thread is started
StartThread ==
    /\ pc = "start"
    /\ cpc = "new"
    /\ cpc' = "spawned"
    /\ pc' = "sleep"
    /\ UNCHANGED <<snapshots_received, running, allocator, allocVars, results, searchVars,
                   trialVars, result>>

\* consume_market_data, lines 180-182
ConsumerBegin ==
    /\ cpc = "spawned"
    /\ running' = TRUE
    /\ cpc' = "run"
    /\ UNCHANGED <<snapshots_received, pc, allocator, allocVars, results, searchVars,
                   trialVars, result>>

\* lines 185-194: a message arrives within the timeout and is appended
Consume ==
    /\ cpc = "run"
    /\ running
    /\ Len(snapshots_received) < MaxFeed
    /\ \E snapshot \in FeedSnapshots :
          snapshots_received' = Append(snapshots_received, snapshot)
    /\ UNCHANGED <<running, cpc, pc, allocator, allocVars, results, searchVars, trialVars,
                   result>>

\* lines 189-191 and 199-205: timeout or error; finally
ConsumerEnd ==
    /\ cpc = "run"
    /\ running' = FALSE
    /\ cpc' = "closed"
    /\ UNCHANGED <<snapshots_received, pc, allocator, allocVars, results, searchVars,
                   trialVars, result>>

\* lines 219-227 and 42-47: after the sleep, return {} when nothing was received,
\* else enter parameter_search
Wake ==
    /\ pc = "sleep"
    /\ IF snapshots_received = <<>>
       THEN pc' = "done" /\ UNCHANGED searchVars
       ELSE /\ pc' = "trial"
            /\ best_params' = None
            /\ best_cost' = Inf
            /\ best_result' = None
            /\ current_combination' = 0
            /\ UNCHANGED <<seen_min, seen_first>>
    /\ UNCHANGED <<allocator, allocVars, results, threadVars, trialVars, result>>

AllocIdle ==
    /\ order_size = 0
    /\ venues = <<>>
    /\ ret = None
    /\ prev_ret = None
    /\ apc = "idle"

Init ==
    /\ AllocIdle
    /\ BacktesterNew
    /\ snapshots_received = <<>>
    /\ allocator = None
    /\ pc = "start"

Next ==
    \/ StartThread
    \/ ConsumerBegin
    \/ Consume
    \/ ConsumerEnd
    \/ Wake
    \/ NextTrial
    \/ TestStart
    \/ TestStep
    \/ TestReturn
    \/ SelectBest

Spec == Init /\ [][Next]_vars

-----------------------------------------------------------------------------
(* One call of _test_strategy on a backtester holding a given snapshot list *)

\* a price too large for a float, no valid record, a cheaper feasible snapshot
SnapBig == <<Quote(50000, 4900), [Quote(0, 200) EXCEPT !.big = TRUE]>>

SnapNone == <<Quote(50000, 0), Quote(0, 100)>>

SnapCheap == <<Quote(49000, 5000)>>

ReplaySnapshots == {SnapFill, SnapThin, SnapFrac, SnapBig, SnapNone, SnapCheap}

ReplayLists == UNION {[1..n -> ReplaySnapshots] : n \in 0..MaxSnapshots}

InitReplay ==
    /\ AllocIdle
    /\ BacktesterNew
    /\ snapshots_received \in ReplayLists
    /\ allocator \in {GridPoint(1), GridPoint(total_combinations)}
    /\ pc = "test"

NextReplay == TestStart \/ TestStep \/ TestReturn

SpecReplay == InitReplay /\ [][NextReplay]_vars

-----------------------------------------------------------------------------
(* One call of parameter_search on a backtester holding a given snapshot list,
   no consumer thread running *)

\* two venues a dollar apart, the cheaper one first and too small for the order
SnapGap == <<Quote(49000, 200), Quote(50000, 4900)>>

SearchSnapshots == {SnapGap, SnapThin, SnapFrac}

SearchLists == UNION {[1..n -> SearchSnapshots] : n \in 0..MaxSearch}

\* lines 42-47: the locals of parameter_search before its first iteration
InitSearch ==
    /\ AllocIdle
    /\ BacktesterNew
    /\ snapshots_received \in SearchLists
    /\ allocator = None
    /\ pc = "trial"

NextSearch == NextTrial \/ TestStart \/ TestStep \/ TestReturn \/ SelectBest

SpecSearch == InitSearch /\ [][NextSearch]_vars

-----------------------------------------------------------------------------
(* benchmark_strategies.py: BenchmarkStrategies.  A strategy is handed a copy of *)
(* the list; objs are the Venue objects the list and its copies refer to, list  *)
(* the indices of objs the copy holds.  The venue ids of a snapshot are         *)
(* distinct, so list.remove takes out the object itself.                        *)

num_intervals == 10

\* min(venues, key=lambda v: v.ask): the position in list of the first venue of
\* lowest ask
MinAskPos(objs, list) ==
    CHOOSE p \in 1..Len(list) :
        /\ \A q \in 1..Len(list) : objs[list[p]].ask <= objs[list[q]].ask
        /\ \A q \in 1..(p - 1) : objs[list[q]].ask > objs[list[p]].ask

\* venues.remove(best_venue)
RemoveAt(list, p) == SubSeq(list, 1, p - 1) \o SubSeq(list, p + 1, Len(list))

\* naive_best_ask, the while loop of lines 29-44: [objs, total_cash, shares_filled]
RECURSIVE BestAskLoop(_, _, _, _, _)
BestAskLoop(objs, list, cash, filled, remaining) ==
    IF ~(remaining > 0 /\ list # <<>>)
    THEN [objs |-> objs, total_cash |-> cash, shares_filled |-> filled]
    ELSE LET p == MinAskPos(objs, list)
             best_venue == list[p]
             shares_to_buy == Min2(remaining, objs[best_venue].ask_size)
         IN  IF shares_to_buy > 0
             THEN LET after == [objs EXCEPT ![best_venue].ask_size = @ - shares_to_buy]
                  IN  BestAskLoop(after,
                                  IF after[best_venue].ask_size <= 0
                                  THEN RemoveAt(list, p) ELSE list,
                                  cash + shares_to_buy * (objs[best_venue].ask
                                                          + objs[best_venue].fee),
                                  filled + shares_to_buy,
                                  remaining - shares_to_buy)
             ELSE [objs |-> objs, total_cash |-> cash, shares_filled |-> filled]

\* naive_best_ask(target, venues.copy())
NaiveBestAsk(target, objs) ==
    BestAskLoop(objs, [k \in 1..Len(objs) |-> k], 0, 0, target)

\* [v for v in venues if v.ask_size > bound]
Available(objs, list, bound) == SelectSeq(list, LAMBDA k : objs[k].ask_size > bound)

\* twap_strategy, the for loop of lines 65-84 from interval on
RECURSIVE TwapLoop(_, _, _, _, _, _)
TwapLoop(objs, list, interval, target, cash, filled) ==
    IF interval >= num_intervals \/ list = <<>>
    THEN [objs |-> objs, total_cash |-> cash, shares_filled |-> filled]
    ELSE LET shares_to_buy == IF interval = num_intervals - 1
                              THEN target - filled
                              ELSE target \div num_intervals
             available_venues == Available(objs, list, 0)
         IN  IF available_venues = <<>>
             THEN TwapLoop(objs, list, interval + 1, target, cash, filled)
             ELSE LET best_venue == available_venues[MinAskPos(objs, available_venues)]
                      executable_shares == Min2(shares_to_buy, objs[best_venue].ask_size)
                  IN  IF executable_shares > 0
                      THEN TwapLoop([objs EXCEPT ![best_venue].ask_size
                                                    = @ - executable_shares],
                                    list, interval + 1, target,
                                    cash + executable_shares * (objs[best_venue].ask
                                                                + objs[best_venue].fee),
                                    filled + executable_shares)
                      ELSE TwapLoop(objs, list, interval + 1, target, cash, filled)

\* twap_strategy(target, venues.copy())
TwapStrategy(target, objs) ==
    TwapLoop(objs, [k \in 1..Len(objs) |-> k], 0, target, 0, 0)

RECURSIVE TotalVolume(_, _)
TotalVolume(objs, i) ==
    IF i > Len(objs) THEN 0 ELSE objs[i].ask_size + TotalVolume(objs, i + 1)

\* vwap_strategy, the for loop of lines 104-115 from venue i on; the share
\* int(target * (ask_size / total_volume)) is computed exactly
RECURSIVE VwapLoop(_, _, _, _, _, _)
VwapLoop(objs, i, target, total_volume, cash, filled) ==
    IF i > Len(objs) THEN [total_cash |-> cash, shares_filled |-> filled]
    ELSE LET shares_to_buy == Min2((target * objs[i].ask_size) \div total_volume,
                                   objs[i].ask_size)
         IN  IF objs[i].ask_size > 0 /\ shares_to_buy > 0
             THEN VwapLoop(objs, i + 1, target, total_volume,
                           cash + shares_to_buy * (objs[i].ask + objs[i].fee),
                           filled + shares_to_buy)
             ELSE VwapLoop(objs, i + 1, target, total_volume, cash, filled)

\* vwap_strategy(target, venues.copy())
VwapStrategy(target, objs) ==
    IF TotalVolume(objs, 1) = 0
    THEN [objs |-> objs, total_cash |-> 0, shares_filled |-> 0]
    ELSE LET first == VwapLoop(objs, 1, target, TotalVolume(objs, 1), 0, 0)
             remaining == target - first.shares_filled
             available_venues == Available(objs, [k \in 1..Len(objs) |-> k],
                                           first.shares_filled)
         IN  IF remaining > 0 /\ available_venues # <<>>
             THEN LET best_venue == available_venues[MinAskPos(objs, available_venues)]
                      executable_shares == Min2(remaining, objs[best_venue].ask_size)
                  IN  IF executable_shares > 0
                      THEN [objs |-> objs,
                            total_cash |-> first.total_cash
                                + executable_shares * (objs[best_venue].ask
                                                       + objs[best_venue].fee),
                            shares_filled |-> first.shares_filled + executable_shares]
                      ELSE [objs |-> objs, total_cash |-> first.total_cash,
                            shares_filled |-> first.shares_filled]
             ELSE [objs |-> objs, total_cash |-> first.total_cash,
                   shares_filled |-> first.shares_filled]

-----------------------------------------------------------------------------
(* backtest.py: SORBacktester.run_benchmarks *)

\* a Venue object as the dataclass builds it, fee and rebate at their defaults
VenueObject(v) == [ask |-> v.ask, ask_size |-> v.ask_size, fee |-> fee, rebate |-> rebate]

\* the entry of the results dict (avg_fill_px is total_cash / shares_filled)
Entry(r) == [total_cash |-> r.total_cash, shares_filled |-> r.shares_filled]

NoResults == [best_ask |-> None, twap |-> None, vwap |-> None]

\* lines 127-146: the Venue objects of the first snapshot
BuildVenues ==
    /\ pc = "benchmarks"
    /\ results' = NoResults
    /\ IF snapshots_received = <<>>
       THEN pc' = "bench_done" /\ UNCHANGED venues
       ELSE LET vs == ValidVenues(snapshots_received[1])
            IN  /\ venues' = [k \in 1..Len(vs) |-> VenueObject(vs[k])]
                /\ pc' = IF vs = <<>> THEN "bench_done" ELSE "best_ask"
    /\ UNCHANGED <<order_size, ret, prev_ret, apc, allocator, threadVars, searchVars,
                   trialVars, result>>

\* lines 151-155
BestAsk ==
    /\ pc = "best_ask"
    /\ LET r == NaiveBestAsk(target_shares, venues)
       IN  /\ venues' = r.objs
           /\ results' = [results EXCEPT !.best_ask = Entry(r)]
    /\ pc' = "twap"
    /\ UNCHANGED <<order_size, ret, prev_ret, apc, allocator, threadVars, searchVars,
                   trialVars, result>>

\* lines 158-162
Twap ==
    /\ pc = "twap"
    /\ LET r == TwapStrategy(target_shares, venues)
       IN  /\ venues' = r.objs
           /\ results' = [results EXCEPT !.twap = Entry(r)]
    /\ pc' = "vwap"
    /\ UNCHANGED <<order_size, ret, prev_ret, apc, allocator, threadVars, searchVars,
                   trialVars, result>>

\* lines 165-169 and 174
Vwap ==
    /\ pc = "vwap"
    /\ LET r == VwapStrategy(target_shares, venues)
       IN  /\ venues' = r.objs
           /\ results' = [results EXCEPT !.vwap = Entry(r)]
    /\ pc' = "bench_done"
    /\ UNCHANGED <<order_size, ret, prev_ret, apc, allocator, threadVars, searchVars,
                   trialVars, result>>

BenchSizes == {0, 800, 6000}

BenchQuotes == {Quote(a, z) : a \in Asks, z \in BenchSizes}

\* the first snapshot received, or none
BenchLists ==
    {<<>>} \cup {<<first>> : first \in UNION {[1..n -> BenchQuotes] : n \in 1..MaxVenues}}

InitBench ==
    /\ AllocIdle
    /\ BacktesterNew
    /\ allocator = None
    /\ snapshots_received \in BenchLists
    /\ pc = "benchmarks"

NextBench == BuildVenues \/ BestAsk \/ Twap \/ Vwap

SpecBench == InitBench /\ [][NextBench]_vars

-----------------------------------------------------------------------------
(* Claims about allocate, checked under SpecAlloc *)

Returned == apc \in {"update", "recall", "done"}

\* the quantities a split may hold: the multiples of step up to the order size
Multiples(order) == {q \in 0..order : q % step = 0}

\* every vector of multiples of step, bounded per venue by ask_size, summing to order
FeasibleVectors(order, vs) ==
    {q \in [1..Len(vs) -> Multiples(order)] :
        /\ \A i \in 1..Len(vs) : q[i] <= vs[i].ask_size
        /\ SumSeq(q) = order}

\* a before b in the order of enumeration: venue 1 most significant, quantities ascending
LexLess(a, b) ==
    \E i \in 1..Len(a) : a[i] < b[i] /\ \A j \in 1..(i - 1) : a[j] = b[j]

\* the candidates allocate scores
ScoredCandidates(order, vs) ==
    LET e == Enumerate(<< <<>> >>, 1, order, vs)
    IN  {e.splits[i] : i \in {j \in 1..Len(e.splits) : Scored(e.splits[j], order)}}

RECURSIVE StepCapacity(_, _)
StepCapacity(vs, i) ==
    IF i > Len(vs) THEN 0 ELSE (vs[i].ask_size \div step) * step + StepCapacity(vs, i + 1)

\* C1: a non-empty split returned by allocate sums to order_size exactly and has
\* exactly one entry per venue.
C1_SumAndLength ==
    (Returned /\ ret.split # <<>>) =>
        /\ SumSeq(ret.split) = order_size
        /\ Len(ret.split) = Len(venues)

C1_Witness ==
    /\ Returned
    /\ Len(ret.split) = 3
    /\ Cardinality({i \in 1..3 : ret.split[i] > 0}) >= 2

\* C2: every entry of a returned split is within 0..ask_size and a multiple of
\* step, also when the cap is no multiple of step; a venue quoting less than
\* step is assigned 0.
C2_CapacityAndStep ==
    Returned =>
        \A i \in 1..Len(ret.split) :
            /\ 0 <= ret.split[i]
            /\ ret.split[i] <= venues[i].ask_size
            /\ ret.split[i] % step = 0
            /\ venues[i].ask_size < step => ret.split[i] = 0

\* a cheaper venue quoting less than step is passed over, and a venue whose cap
\* is no multiple of step is filled to the multiple below the cap
C2_Witness ==
    /\ Returned
    /\ Len(ret.split) = 3
    /\ \E i, j \in 1..3 :
          /\ venues[i].ask_size < step /\ venues[i].ask < venues[j].ask
          /\ ret.split[j] > 0
    /\ \E k \in 1..3 :
          /\ Min2(order_size, venues[k].ask_size) % step # 0
          /\ ret.split[k] = (venues[k].ask_size \div step) * step

\* C3: when a feasible vector exists, allocate returns a feasible vector of
\* minimum cost over all feasible vectors, and of the minima the first in the
\* order of enumeration.
C3_FirstMinimum ==
    (Returned /\ FeasibleVectors(order_size, venues) # {}) =>
        /\ ret.split \in FeasibleVectors(order_size, venues)
        /\ ret.cost = ComputeCost(ret.split, venues, order_size, allocator)
        /\ \A q \in FeasibleVectors(order_size, venues) :
              LET c == ComputeCost(q, venues, order_size, allocator)
              IN  /\ ret.cost <= c
                  /\ (c = ret.cost /\ q # ret.split) => LexLess(ret.split, q)

\* several feasible vectors tie at the minimum and another one costs more
C3_Witness ==
    /\ Returned
    /\ ret.split # <<>>
    /\ \E q \in FeasibleVectors(order_size, venues) :
          q # ret.split /\ ComputeCost(q, venues, order_size, allocator) = ret.cost
    /\ \E q \in FeasibleVectors(order_size, venues) :
          ComputeCost(q, venues, order_size, allocator) > ret.cost

\* C4: for order_size > 0 allocate returns ([], inf) exactly when no feasible
\* vector exists, which covers an order_size that is no multiple of step, an
\* empty venue list and a step capacity below order_size; it does not raise.
C4_EmptyIffInfeasible ==
    Returned =>
        /\ ~ret.raised
        /\ (ret.split = <<>> /\ ret.cost = Inf)
              <=> (FeasibleVectors(order_size, venues) = {})
        /\ ret.split = <<>> <=> ret.cost = Inf
        /\ (\/ order_size % step # 0
            \/ venues = <<>>
            \/ StepCapacity(venues, 1) < order_size) => ret.split = <<>>

\* the venues quote more than order_size in total and yet no vector is feasible
C4_Witness ==
    /\ Returned
    /\ ret.split = <<>> /\ ret.cost = Inf
    /\ order_size % step = 0
    /\ Len(venues) = 3
    /\ venues[1].ask_size + venues[2].ask_size + venues[3].ask_size > order_size

\* C5: the weights never influence allocate: the call after update_parameters
\* returns the same split and cost, and every scored candidate has
\* exe = candidate_i, no maker rebate, no underfill and no overfill.
C5_WeightsIrrelevant ==
    /\ apc = "done" => (ret = prev_ret)
    /\ Returned =>
          \A c \in ScoredCandidates(order_size, venues) :
              /\ \A i \in 1..Len(venues) :
                    Exe(c, venues, i) = c[i] /\ MakerRebate(c, venues, i) = 0
              /\ Underfill(c, venues, order_size) = 0
              /\ Overfill(c, venues, order_size) = 0

C5_Witness ==
    /\ apc = "done"
    /\ Len(ret.split) = 2
    /\ ret.split[1] > 0 /\ ret.split[2] > 0
    /\ allocator.theta_queue # theta_queue_values[1]
    /\ Cardinality(ScoredCandidates(order_size, venues)) > 1

-----------------------------------------------------------------------------
(* Claims about parameter_search and run_backtest, checked under Spec *)

\* C6: parameter_search returns the weights and the result of the trial with
\* the lowest total_cash, the first such trial in grid order, and best_result
\* is the result object of the trial whose weights are returned.
C6_LowestCashFirstTrial ==
    /\ seen_first = 0 => (best_result = None /\ best_params = None)
    /\ seen_first > 0 =>
          /\ best_result # None
          /\ best_result.total_cash = seen_min
          /\ best_result.trial = seen_first
          /\ best_params = GridPoint(seen_first)
    /\ pc = "search_done" =>
          (current_combination = total_combinations /\ seen_first > 0)

\* a search whose later trials ended with another total_cash than the best
C6_Witness ==
    /\ pc = "search_done"
    /\ best_params = GridPoint(1)
    /\ result.total_cash > best_result.total_cash
    /\ result.trial = total_combinations

\* C8: while parameter_search runs, snapshots_received does not change.
C8_SnapshotsFixedDuringSearch ==
    [][(pc \in {"trial", "test", "replay", "returned"})
          => (snapshots_received' = snapshots_received)]_vars

-----------------------------------------------------------------------------
(* Claims about one replay trial, checked under SpecReplay *)

\* C7: a snapshot whose processing raises leaves total_cash, shares_filled and
\* remaining_shares as they were, the replay goes on to the next snapshot, and
\* the trial returns an ExecutionResult.
C7_ExceptionSkipsSnapshot ==
    [][/\ (pc = "replay" /\ idx' = idx + 1 /\ last'.kind = "raised") =>
            /\ total_cash' = total_cash
            /\ shares_filled' = shares_filled
            /\ remaining_shares' = remaining_shares
            /\ pc' = "replay"
       /\ (pc = "replay" /\ pc' = "returned") =>
            /\ result' # None
            /\ result'.total_cash = total_cash
            /\ result'.shares_filled = shares_filled
            /\ idx >= Len(snapshots_received) \/ remaining_shares <= 0]_vars

\* a trial returned after one snapshot raised in scoring, the next raised in the
\* enumeration and the third was bought in full
C7_Witness ==
    /\ pc = "returned"
    /\ snapshots_received = <<SnapBig, SnapFrac, SnapFill>>
    /\ result # None
    /\ result.shares_filled = target_shares
    /\ idx = 3

Replaying == pc = "replay" \/ (pc = "returned" /\ result # None)

\* C10: a replay trial is all-or-nothing: remaining_shares stays within
\* 0..target_shares, shares_filled + remaining_shares = target_shares, every
\* quantity bought equals allocation[i], at most one snapshot buys, and the
\* trial ends with shares_filled 0 or target_shares.
C10_AllOrNothing ==
    Replaying =>
        /\ 0 <= remaining_shares /\ remaining_shares <= target_shares
        /\ shares_filled + remaining_shares = target_shares
        /\ last # None =>
              \A i \in 1..Len(last.allocation) :
                  last.allocation[i] > 0 => last.bought[i] = last.allocation[i]
        /\ fills <= 1
        /\ shares_filled \in {0, target_shares}
        /\ pc = "returned" => result.shares_filled \in {0, target_shares}

\* a trial that skipped an infeasible snapshot, bought everything at two venues
\* of the next and never looked at the cheaper third
C10_Witness ==
    /\ pc = "returned"
    /\ snapshots_received = <<SnapThin, SnapFill, SnapCheap>>
    /\ result # None
    /\ result.shares_filled = target_shares
    /\ idx = 2
    /\ fills = 1
    /\ Cardinality({i \in 1..Len(last.bought) : last.bought[i] > 0}) = 2

-----------------------------------------------------------------------------
(* Claim about run_benchmarks, checked under SpecBench *)

\* the Venue objects built from the first snapshot, as run_benchmarks builds them
FreshVenues ==
    LET vs == ValidVenues(snapshots_received[1])
    IN  [k \in 1..Len(vs) |-> VenueObject(vs[k])]

\* C9: each of the three benchmark results equals the result of its strategy run
\* alone on venues freshly built from the first snapshot.
C9_BenchmarksIndependent ==
    (pc = "bench_done" /\ results.vwap # None) =>
        /\ results.best_ask = Entry(NaiveBestAsk(target_shares, FreshVenues))
        /\ results.twap = Entry(TwapStrategy(target_shares, FreshVenues))
        /\ results.vwap = Entry(VwapStrategy(target_shares, FreshVenues))

-----------------------------------------------------------------------------
(* Claim about parameter_search on a fixed list, checked under SpecSearch *)

\* C11: on a fixed non-empty snapshot list every trial of parameter_search ends
\* with the total_cash and shares_filled of the first trial, and from the first
\* trial on the best weights are the first grid triple (0.2, 0.3, 0.1) and the
\* best result is the first trial's; the search ends after all 125 trials.
C11_FirstTripleAlways ==
    /\ (pc = "returned" /\ best_result # None) =>
          /\ result # None
          /\ result.total_cash = best_result.total_cash
          /\ result.shares_filled = best_result.shares_filled
    /\ (pc \in {"trial", "search_done"} /\ current_combination >= 1
            /\ snapshots_received # <<>>) =>
          /\ best_params = Weights(lambda_over_values[1], lambda_under_values[1],
                                    theta_queue_values[1])
          /\ best_result # None
          /\ best_result.trial = 1
          /\ best_cost = best_result.total_cash
    /\ pc = "search_done" => current_combination = total_combinations

\* a finished search whose last trial, under the last grid triple, split the
\* order over two venues of different price
C11_Witness ==
    /\ pc = "search_done"
    /\ snapshots_received # <<>>
    /\ result.trial = total_combinations
    /\ allocator = Weights(lambda_over_values[5], lambda_under_values[5],
                            theta_queue_values[5])
    /\ best_result.shares_filled = target_shares
    /\ last.kind = "executed"
    /\ Len(last.allocation) = 2
    /\ last.allocation[1] > 0 /\ last.allocation[2] > 0
    /\ last.venues[1].ask # last.venues[2].ask

=============================================================================
